---------------------------- MODULE Spec2Model ----------------------------
(***************************************************************************)
(* A model of the DNS message decoders of the repository: the library      *)
(* decoder (src/src/lib.rs) step by step, and the binary's own copy of the *)
(* decoder (src/src/main.rs) function by function, both run over the same  *)
(* input buffer.                                                           *)
(*                                                                         *)
(* Bytes are integers 0..255, buffers are sequences of bytes.  Rust        *)
(* indices are 0-based: byte i of a buffer b is b[i + 1].  A String is     *)
(* modelled by the sequence of the bytes of its UTF-8 encoding.            *)
(***************************************************************************)
EXTENDS Integers, Sequences, FiniteSets, TLC

VARIABLES
    buffer,            \* the input: buf of parse_message
    \* ---- lib.rs ----
    pc,                \* position of the library decoder
    next_index,        \* Buffer.next_index
    names,             \* HashMap<usize, Vec<String>>: the name cache
    ret,               \* the caller parse_name returns to
    name,              \* parse_name: name
    offset,            \* parse_name: offset (the start offset)
    length,            \* parse_name: length
    header,            \* parse_message: header
    question,          \* parse_message: question
    resource_records,  \* parse_resource_records: resource_records
    answers,           \* parse_message: answers
    remaining,         \* parse_resource_records: iterations of 0..amt left
    message,           \* the value parse_message returns
    \* ---- history of the library decoder ----
    calls,             \* the parse_name calls that returned, in order
    rr_trace,          \* per record: cursor positions around the payload
    ptr,               \* the last compression pointer met by parse_name
    \* ---- main.rs ----
    m_pc,              \* position of the binary's decoder
    m_index,           \* index
    m_names,           \* names
    m_header,          \* header
    m_question,        \* question
    m_records,         \* resource_records
    m_remaining,       \* iterations of 0..amt left
    m_message,         \* the value parse_message returns
    m_calls            \* the parse_name calls that returned, in order

lib_vars == <<pc, next_index, names, ret, name, offset, length, header,
              question, resource_records, answers, remaining, message,
              calls, rr_trace, ptr>>
main_vars == <<m_pc, m_index, m_names, m_header, m_question, m_records,
               m_remaining, m_message, m_calls>>
vars == <<buffer, lib_vars, main_vars>>

---------------------------------------------------------------------------
(* Bounds of the model.                                                    *)

\* Most resource records written into an input buffer, and the largest
\* answer count written into its header.
MaxRecords == 2

---------------------------------------------------------------------------
(* Bit and byte arithmetic.                                                *)

RECURSIVE BitAnd(_, _)
\* byte & mask
BitAnd(a, b) ==
    IF a = 0 \/ b = 0 THEN 0
    ELSE (IF a % 2 = 1 /\ b % 2 = 1 THEN 1 ELSE 0)
         + 2 * BitAnd(a \div 2, b \div 2)

RECURSIVE BitOr(_, _)
\* byte | mask
BitOr(a, b) ==
    IF a = 0 THEN b
    ELSE IF b = 0 THEN a
    ELSE (IF a % 2 = 1 \/ b % 2 = 1 THEN 1 ELSE 0)
         + 2 * BitOr(a \div 2, b \div 2)

\* fn bits_set(byte: u8, bit_pos: u8) -> bool
bits_set(byte, bit_pos) == BitAnd(byte, bit_pos) = bit_pos

\* u16::from_be_bytes([hi, lo])
u16_from_be_bytes(hi, lo) == hi * 256 + lo

\* u32::from_be_bytes([b0, b1, b2, b3])
u32_from_be_bytes(b0, b1, b2, b3) ==
    ((b0 * 256 + b1) * 256 + b2) * 256 + b3

---------------------------------------------------------------------------
(* String::from_utf8_lossy: every maximal invalid part of the input is     *)
(* replaced by U+FFFD, whose UTF-8 encoding is EF BF BD; valid input is    *)
(* kept byte for byte.                                                     *)

REPLACEMENT == <<239, 191, 189>>

\* core::str::utf8_char_width
utf8_char_width(b) ==
    IF b < 128 THEN 1
    ELSE IF b >= 194 /\ b <= 223 THEN 2
    ELSE IF b >= 224 /\ b <= 239 THEN 3
    ELSE IF b >= 240 /\ b <= 244 THEN 4
    ELSE 0

\* the byte at 1-based position i, 0 past the end (safe_get)
safe_get(s, i) == IF i >= 1 /\ i <= Len(s) THEN s[i] ELSE 0

is_cont(b) == b >= 128 /\ b <= 191

\* the second byte of a 3-byte sequence that starts with b
second_ok3(b, c) ==
    \/ b = 224 /\ c >= 160 /\ c <= 191
    \/ b >= 225 /\ b <= 236 /\ is_cont(c)
    \/ b = 237 /\ c >= 128 /\ c <= 159
    \/ b >= 238 /\ b <= 239 /\ is_cont(c)

\* the second byte of a 4-byte sequence that starts with b
second_ok4(b, c) ==
    \/ b = 240 /\ c >= 144 /\ c <= 191
    \/ b >= 241 /\ b <= 243 /\ is_cont(c)
    \/ b = 244 /\ c >= 128 /\ c <= 143

\* The scan of one character starting at position i of s:
\* [valid, len]: whether it is a valid character, and how many bytes the
\* scan passed (the character's bytes, or the invalid part to replace).
utf8_scan(s, i) ==
    LET b == s[i]
        w == utf8_char_width(b)
        c1 == safe_get(s, i + 1)
        c2 == safe_get(s, i + 2)
        c3 == safe_get(s, i + 3)
    IN  CASE w = 1 -> [valid |-> TRUE, len |-> 1]
          [] w = 2 -> IF is_cont(c1) THEN [valid |-> TRUE, len |-> 2]
                      ELSE [valid |-> FALSE, len |-> 1]
          [] w = 3 -> IF ~second_ok3(b, c1) THEN [valid |-> FALSE, len |-> 1]
                      ELSE IF ~is_cont(c2) THEN [valid |-> FALSE, len |-> 2]
                      ELSE [valid |-> TRUE, len |-> 3]
          [] w = 4 -> IF ~second_ok4(b, c1) THEN [valid |-> FALSE, len |-> 1]
                      ELSE IF ~is_cont(c2) THEN [valid |-> FALSE, len |-> 2]
                      ELSE IF ~is_cont(c3) THEN [valid |-> FALSE, len |-> 3]
                      ELSE [valid |-> TRUE, len |-> 4]
          [] OTHER -> [valid |-> FALSE, len |-> 1]

RECURSIVE lossy_from(_, _)
lossy_from(s, i) ==
    IF i > Len(s) THEN <<>>
    ELSE LET r == utf8_scan(s, i)
         IN  (IF r.valid THEN SubSeq(s, i, i + r.len - 1) ELSE REPLACEMENT)
             \o lossy_from(s, i + r.len)

RECURSIVE ascii_only_from(_, _)
ascii_only_from(s, i) ==
    IF i > Len(s) THEN <<>>
    ELSE (IF s[i] < 128 THEN <<s[i]>> ELSE REPLACEMENT)
         \o ascii_only_from(s, i + 1)

\* from_utf8_ascii_only: every byte that is not ASCII is replaced
from_utf8_ascii_only(s) == ascii_only_from(s, 1)

\* String::from_utf8_lossy(bytes).to_string()
from_utf8_lossy(s) == lossy_from(s, 1)

---------------------------------------------------------------------------
(* Values.                                                                 *)

\* HashMap::new()
EmptyMap == [o \in {} |-> <<>>]

\* names.insert(offset, name.clone())
insert(map, key, value) ==
    [o \in DOMAIN map \cup {key} |-> IF o = key THEN value ELSE map[o]]

\* Option<Vec<ResourceRecord>>
None == [some |-> FALSE, recs |-> <<>>]
Some(recs) == [some |-> TRUE, recs |-> recs]

NoHeader == [id |-> 0, q_type |-> 0, truncated |-> FALSE,
             recursion_desired |-> FALSE, question_count |-> 0,
             answer_count |-> 0, authority_count |-> 0,
             additional_count |-> 0]
NoQuestion == [domain_name |-> <<>>, q_type |-> 0, q_class |-> 0]
NoMessage == [returned |-> FALSE, header |-> NoHeader,
              question |-> NoQuestion, answers |-> None]
NoPtr == [seen |-> FALSE, at |-> 0, target |-> 0, found |-> FALSE]

---------------------------------------------------------------------------
(* The cursor: struct Buffer.                                              *)

\* buffer[i] of a read the bounds check let through
byte_at(i) == IF i < Len(buffer) THEN buffer[i + 1] ELSE 0

\* can_read_unchecked: no bounds check at all
can_read_unchecked(idx, n) == TRUE

\* The bounds check of the indexing in Buffer::next and Buffer::next_n:
\* n reads from idx on stay inside the buffer.
can_read(idx, n) == idx + n <= Len(buffer)

\* buffer[start..start + n]
slice(start, n) == [i \in 1..n |-> byte_at(start + i - 1)]

\* The index a run of n next() calls from idx on panics with: each call
\* adds 1 before it indexes.
panic_index(idx) == IF idx > Len(buffer) THEN idx ELSE Len(buffer) + 1

\* A panic of the library decoder: the call unwinds, nothing is returned.
Panic(idx) ==
    /\ pc' = "panic"
    /\ next_index' = idx

---------------------------------------------------------------------------
(* lib.rs: parse_message, step by step.                                    *)

\* (flag_byte >> 3) | 0b00001111
opcode_or(flag_byte) == BitOr(flag_byte \div 8, 15)

\* (flag_byte >> 3) & 0b00001111
opcode(flag_byte) == BitAnd(flag_byte \div 8, 15)

\* The header of a buffer of at least 12 bytes, as lib.rs reads it.
header_of(b) ==
    [id |-> u16_from_be_bytes(b[1], b[2]),
     q_type |-> opcode(b[3]),
     truncated |-> bits_set(b[3], 2),
     recursion_desired |-> bits_set(b[3], 1),
     question_count |-> u16_from_be_bytes(b[5], b[6]),
     answer_count |-> u16_from_be_bytes(b[7], b[8]),
     authority_count |-> u16_from_be_bytes(b[9], b[10]),
     additional_count |-> u16_from_be_bytes(b[11], b[12])]

\* parse_message up to the call of parse_question: Buffer::new,
\* parse_header, HashMap::new.
ParseHeader ==
    /\ pc = "parse_header"
    /\ IF can_read(0, 12)
       THEN /\ header' = header_of(slice(0, 12))
            /\ next_index' = 12
            /\ names' = EmptyMap
            /\ ret' = "question"
            /\ pc' = "parse_name"
       ELSE /\ Panic(panic_index(0))
            /\ UNCHANGED <<header, names, ret>>
    /\ UNCHANGED <<buffer, name, offset, length, question, resource_records,
                   answers, remaining, message, calls, rr_trace, ptr,
                   main_vars>>

\* parse_name up to the loop: name, offset, the first length byte.
ParseNameStart ==
    /\ pc = "parse_name"
    /\ IF can_read(next_index, 1)
       THEN /\ name' = <<>>
            /\ offset' = next_index
            /\ length' = byte_at(next_index)
            /\ next_index' = next_index + 1
            /\ pc' = "name_loop"
       ELSE /\ Panic(panic_index(next_index))
            /\ UNCHANGED <<name, offset, length>>
    /\ UNCHANGED <<buffer, names, ret, header, question, resource_records,
                   answers, remaining, message, calls, rr_trace, ptr,
                   main_vars>>

\* One iteration of the loop of parse_name over a plain label.
ParseNameLabel ==
    /\ pc = "name_loop"
    /\ length > 0
    /\ ~bits_set(length, 192)
    /\ IF ~can_read(next_index, length)
       THEN /\ Panic(next_index + length)
            /\ UNCHANGED <<name, length>>
       ELSE IF ~can_read(next_index + length, 1)
       THEN /\ Panic(panic_index(next_index + length))
            /\ name' = Append(name, from_utf8_lossy(slice(next_index, length)))
            /\ UNCHANGED length
       ELSE /\ name' = Append(name, from_utf8_lossy(slice(next_index, length)))
            /\ length' = byte_at(next_index + length)
            /\ next_index' = next_index + length + 1
            /\ pc' = "name_loop"
    /\ UNCHANGED <<buffer, names, ret, offset, header, question,
                   resource_records, answers, remaining, message, calls,
                   rr_trace, ptr, main_vars>>

\* pointer_offset_unmasked: the length byte taken whole
pointer_offset_unmasked(len, b) == u16_from_be_bytes(len, b)

\* u16::from_be_bytes([length & 0b00111111, buf.next()]) as usize
pointer_offset(len, b) == u16_from_be_bytes(BitAnd(len, 63), b)

\* extend_first: only the first label of the cached name is copied
extend_first(nm, labels) ==
    nm \o (IF labels = <<>> THEN <<>> ELSE <<labels[1]>>)

\* name.extend(names[&offset].clone())
extend(nm, labels) == nm \o labels

\* The iteration of the loop of parse_name that meets a compression
\* pointer; names[&offset] panics on a key the cache lacks.
ParseNamePointer ==
    /\ pc = "name_loop"
    /\ length > 0
    /\ bits_set(length, 192)
    /\ IF ~can_read(next_index, 1)
       THEN /\ Panic(panic_index(next_index))
            /\ UNCHANGED <<name, ptr>>
       ELSE LET target == pointer_offset(length, byte_at(next_index))
                found == target \in DOMAIN names
            IN  /\ ptr' = [seen |-> TRUE, at |-> next_index - 1,
                           target |-> target, found |-> found]
                /\ next_index' = next_index + 1
                /\ IF found
                   THEN /\ name' = extend(name, names[target])
                        /\ pc' = "name_end"
                   ELSE /\ pc' = "panic"
                        /\ UNCHANGED name
    /\ UNCHANGED <<buffer, names, ret, offset, length, header, question,
                   resource_records, answers, remaining, message, calls,
                   rr_trace, main_vars>>

\* should_cache_always: the name is cached even when it is empty
should_cache_always(nm) == TRUE

\* if !name.is_empty()
should_cache(nm) == nm # <<>>

\* parse_name after the loop: the cache insertion and the return.
ParseNameEnd ==
    /\ \/ pc = "name_end"
       \/ pc = "name_loop" /\ length = 0
    /\ names' = IF should_cache(name) THEN insert(names, offset, name)
                ELSE names
    /\ calls' = Append(calls, [start |-> offset, name |-> name,
                               end |-> next_index,
                               compressed |-> pc = "name_end"])
    /\ pc' = IF ret = "question" THEN "question_fields" ELSE "record_fields"
    /\ UNCHANGED <<buffer, next_index, ret, name, offset, length, header,
                   question, resource_records, answers, remaining, message,
                   rr_trace, ptr, main_vars>>

\* parse_question after parse_name: q_type and q_class.
ParseQuestion ==
    /\ pc = "question_fields"
    /\ IF can_read(next_index, 4)
       THEN /\ question' =
                 [domain_name |-> name,
                  q_type |-> u16_from_be_bytes(byte_at(next_index),
                                               byte_at(next_index + 1)),
                  q_class |-> u16_from_be_bytes(byte_at(next_index + 2),
                                                byte_at(next_index + 3))]
            /\ next_index' = next_index + 4
            /\ pc' = "parse_resource_records"
       ELSE /\ Panic(panic_index(next_index))
            /\ UNCHANGED question
    /\ UNCHANGED <<buffer, names, ret, name, offset, length, header,
                   resource_records, answers, remaining, message, calls,
                   rr_trace, ptr, main_vars>>

\* answers_always_some: a present sequence whatever the count
answers_always_some(amt, recs) == Some(recs)

\* What parse_resource_records returns for a count and the records read.
answers_of(amt, recs) == IF amt = 0 THEN None ELSE Some(recs)

\* parse_resource_records up to its loop.
ParseResourceRecords ==
    /\ pc = "parse_resource_records"
    /\ resource_records' = <<>>
    /\ remaining' = header.answer_count
    /\ IF header.answer_count = 0
       THEN /\ answers' = answers_of(header.answer_count, <<>>)
            /\ pc' = "return"
            /\ UNCHANGED ret
       ELSE /\ ret' = "record"
            /\ pc' = "parse_name"
            /\ UNCHANGED answers
    /\ UNCHANGED <<buffer, next_index, names, name, offset, length, header,
                   question, message, calls, rr_trace, ptr, main_vars>>

\* The number of payload bytes the match on the type reads.
payload_read(rtype) == IF rtype = 1 THEN 4 ELSE 0

\* One iteration of the loop of parse_resource_records after parse_name:
\* type, class, ttl, data_length, data, and the push.
ParseRecordFields ==
    /\ pc = "record_fields"
    /\ LET i == next_index
           rtype == u16_from_be_bytes(byte_at(i), byte_at(i + 1))
           class == u16_from_be_bytes(byte_at(i + 2), byte_at(i + 3))
           ttl == u32_from_be_bytes(byte_at(i + 4), byte_at(i + 5),
                                    byte_at(i + 6), byte_at(i + 7))
           data_length == u16_from_be_bytes(byte_at(i + 8), byte_at(i + 9))
           n == payload_read(rtype)
           data == IF rtype = 1 THEN slice(i + 10, 4) ELSE <<0, 0, 0, 0>>
           recs == Append(resource_records,
                          [name |-> name, type |-> rtype, class |-> class,
                           ttl |-> ttl, data_length |-> data_length,
                           data |-> data])
       IN  IF can_read(i, 10) /\ can_read(i + 10, n)
           THEN /\ resource_records' = recs
                /\ rr_trace' = Append(rr_trace,
                                      [start |-> offset, after_length |-> i + 10,
                                       after_data |-> i + 10 + n])
                /\ next_index' = i + 10 + n
                /\ remaining' = remaining - 1
                /\ IF remaining = 1
                   THEN /\ answers' = answers_of(header.answer_count, recs)
                        /\ pc' = "return"
                   ELSE /\ pc' = "parse_name"
                        /\ UNCHANGED answers
           ELSE /\ Panic(panic_index(i))
                /\ UNCHANGED <<resource_records, rr_trace, remaining,
                               answers>>
    /\ UNCHANGED <<buffer, names, ret, name, offset, length, header,
                   question, message, calls, ptr, main_vars>>

\* parse_message: the Message it returns.
Return ==
    /\ pc = "return"
    /\ message' = [returned |-> TRUE, header |-> header,
                   question |-> question, answers |-> answers]
    /\ pc' = "done"
    /\ UNCHANGED <<buffer, next_index, names, ret, name, offset, length,
                   header, question, resource_records, answers, remaining,
                   calls, rr_trace, ptr, main_vars>>

---------------------------------------------------------------------------
(* main.rs: the binary's own parse_message, function by function.  It runs *)
(* on the same buffer once the library decoder has ended.                  *)

\* The header of a buffer of at least 12 bytes, as main.rs reads it.
m_header_of(b) ==
    [id |-> u16_from_be_bytes(b[1], b[2]),
     q_type |-> opcode_or(b[3]),
     truncated |-> bits_set(b[3], 2),
     recursion_desired |-> bits_set(b[3], 1),
     question_count |-> u16_from_be_bytes(b[5], b[6]),
     answer_count |-> u16_from_be_bytes(b[7], b[8]),
     authority_count |-> u16_from_be_bytes(b[9], b[10]),
     additional_count |-> u16_from_be_bytes(b[11], b[12])]

m_failed == [ok |-> FALSE, name |-> <<>>, index |-> 0]

RECURSIVE m_name_loop(_, _, _, _)
\* The loop of main.rs parse_name: nm is name, idx is *index, len is length.
\* ok is FALSE when an index or the cache lookup panics.
m_name_loop(nm, idx, len, cache) ==
    IF len = 0 THEN [ok |-> TRUE, name |-> nm, index |-> idx]
    ELSE IF bits_set(len, 192)
    THEN IF idx >= Len(buffer) THEN m_failed
         ELSE LET target == pointer_offset(len, buffer[idx + 1])
              IN  IF target \in DOMAIN cache
                  THEN [ok |-> TRUE, name |-> extend(nm, cache[target]),
                        index |-> idx]
                  ELSE m_failed
    ELSE IF idx + len > Len(buffer) THEN m_failed
    ELSE IF idx + len >= Len(buffer) THEN m_failed
    ELSE m_name_loop(Append(nm, from_utf8_lossy(slice(idx, len))),
                     idx + len + 1, buffer[idx + len + 1], cache)

\* main.rs parse_name(names, buf, index): the name, the index after it and
\* the cache after it.
m_parse_name(cache, idx) ==
    IF idx >= Len(buffer)
    THEN [ok |-> FALSE, name |-> <<>>, index |-> idx, names |-> cache]
    ELSE LET r == m_name_loop(<<>>, idx + 1, buffer[idx + 1], cache)
         IN  [ok |-> r.ok, name |-> r.name, index |-> r.index,
              names |-> IF r.ok /\ should_cache(r.name)
                        THEN insert(cache, idx, r.name) ELSE cache]

LibEnded == pc \in {"done", "panic"}

\* main.rs parse_message up to the call of parse_question.
M_ParseHeader ==
    /\ LibEnded
    /\ m_pc = "parse_header"
    /\ IF Len(buffer) >= 12
       THEN /\ m_header' = m_header_of(buffer)
            /\ m_index' = 12
            /\ m_names' = EmptyMap
            /\ m_pc' = "parse_question"
       ELSE /\ m_pc' = "panic"
            /\ UNCHANGED <<m_header, m_index, m_names>>
    /\ UNCHANGED <<buffer, lib_vars, m_question, m_records, m_remaining,
                   m_message, m_calls>>

\* main.rs parse_question.
M_ParseQuestion ==
    /\ m_pc = "parse_question"
    /\ LET r == m_parse_name(m_names, m_index)
           i == r.index
       IN  IF r.ok /\ i + 4 <= Len(buffer)
           THEN /\ m_question' =
                     [domain_name |-> r.name,
                      q_type |-> u16_from_be_bytes(buffer[i + 1],
                                                   buffer[i + 2]),
                      q_class |-> u16_from_be_bytes(buffer[i + 3],
                                                    buffer[i + 4])]
                /\ m_index' = i + 4
                /\ m_names' = r.names
                /\ m_calls' = Append(m_calls, [start |-> m_index,
                                               name |-> r.name,
                                               end |-> i])
                /\ m_pc' = "parse_resource_records"
           ELSE /\ m_pc' = "panic"
                /\ UNCHANGED <<m_question, m_index, m_names, m_calls>>
    /\ UNCHANGED <<buffer, lib_vars, m_header, m_records, m_remaining,
                   m_message>>

\* main.rs parse_resource_records up to its loop.
M_ParseResourceRecords ==
    /\ m_pc = "parse_resource_records"
    /\ m_records' = IF m_header.answer_count = 0 THEN None ELSE Some(<<>>)
    /\ m_remaining' = m_header.answer_count
    /\ m_pc' = IF m_header.answer_count = 0 THEN "return" ELSE "record"
    /\ UNCHANGED <<buffer, lib_vars, m_index, m_names, m_header, m_question,
                   m_message, m_calls>>

\* One iteration of the loop of main.rs parse_resource_records.
M_ParseRecord ==
    /\ m_pc = "record"
    /\ LET r == m_parse_name(m_names, m_index)
       IN  IF r.ok
           THEN /\ m_records' = Some(Append(m_records.recs,
                                            [name |-> r.name]))
                /\ m_index' = r.index
                /\ m_names' = r.names
                /\ m_calls' = Append(m_calls, [start |-> m_index,
                                               name |-> r.name,
                                               end |-> r.index])
                /\ m_remaining' = m_remaining - 1
                /\ m_pc' = IF m_remaining = 1 THEN "return" ELSE "record"
           ELSE /\ m_pc' = "panic"
                /\ UNCHANGED <<m_records, m_index, m_names, m_calls,
                               m_remaining>>
    /\ UNCHANGED <<buffer, lib_vars, m_header, m_question, m_message>>

\* main.rs parse_message: the Message it returns.
M_Return ==
    /\ m_pc = "return"
    /\ m_message' = [returned |-> TRUE, header |-> m_header,
                     question |-> m_question, answers |-> m_records]
    /\ m_pc' = "done"
    /\ UNCHANGED <<buffer, lib_vars, m_index, m_names, m_header, m_question,
                   m_records, m_remaining, m_calls>>

---------------------------------------------------------------------------
(* The input buffers.                                                      *)

\* tests::test_parse_question
ScenarioA ==
    <<141, 225, 1, 32, 0, 1, 0, 0, 0, 0, 0, 0, 7, 101, 120, 97, 109, 112,
      108, 101, 3, 99, 111, 109, 0, 0, 1, 0, 1>>

\* tests::test_parse_response
ScenarioB ==
    <<141, 225, 129, 160, 0, 1, 0, 1, 0, 0, 0, 0, 7, 101, 120, 97, 109, 112,
      108, 101, 3, 99, 111, 109, 0, 0, 1, 0, 1, 192, 12, 0, 1, 0, 1, 0, 1,
      42, 15, 0, 4, 93, 184, 216, 34>>

Prefixes(b) == {SubSeq(b, 1, k) : k \in 0..Len(b)}

\* Flag bytes: RD only; opcode 15 with TC.
Flags == {1, 122}

MessageHeader(flag, an) == <<141, 225, flag, 32, 0, 1, 0, an, 0, 0, 0, 0>>

\* Question names, encoded; the question name starts at offset 12.
\* The root; a; a.b; a label that is not UTF-8; a pointer to itself;
\* a label of one two-byte character; a label of 64 bytes.
QNames ==
    {<<0>>, <<1, 97, 0>>, <<1, 97, 1, 98, 0>>, <<1, 128, 0>>, <<192, 12>>,
     <<2, 195, 169, 0>>, <<64>> \o [i \in 1..64 |-> 97] \o <<0>>}

\* Owner names, encoded: a pointer to the question name; a pointer to
\* offset 14, the second label of the question name a.b; b followed by a
\* pointer to the question name; the root.
RNames == {<<192, 12>>, <<192, 14>>, <<1, 98, 192, 12>>, <<0>>}

\* Type, declared data length and the payload bytes present.
RData ==
    {<<0, 1, 0, 1, 0, 1, 42, 15, 0, 4, 93, 184, 216, 34>>,
     <<0, 2, 0, 1, 0, 1, 42, 15, 0, 4, 93, 184, 216, 34>>,
     <<0, 1, 0, 1, 0, 1, 42, 15, 0, 0>>}

Records == {n \o d : n \in RNames, d \in RData}

RecordSeqs == UNION {[1..n -> Records] : n \in 0..MaxRecords}

RECURSIVE Concat(_)
Concat(ss) == IF ss = <<>> THEN <<>> ELSE Head(ss) \o Concat(Tail(ss))

\* Question names of the buffers that carry records: the root, and a.b.
RQNames == {<<0>>, <<1, 97, 1, 98, 0>>}

\* Buffers that end after the question, whatever count the header claims.
QuestionOnly ==
    {MessageHeader(f, an) \o q \o <<0, 1, 0, 1>> :
        f \in Flags, an \in 0..MaxRecords, q \in QNames}

\* Buffers with up to MaxRecords records after the question.
WithRecords ==
    {MessageHeader(1, an) \o q \o <<0, 1, 0, 1>> \o Concat(rs) :
        an \in 0..MaxRecords, q \in RQNames, rs \in RecordSeqs}

Inputs ==
    QuestionOnly \cup WithRecords \cup Prefixes(ScenarioB) \cup {ScenarioA}

---------------------------------------------------------------------------
(* The specification.                                                      *)

Init ==
    /\ buffer \in Inputs
    /\ pc = "parse_header"
    /\ next_index = 0
    /\ names = EmptyMap
    /\ ret = "question"
    /\ name = <<>>
    /\ offset = 0
    /\ length = 0
    /\ header = NoHeader
    /\ question = NoQuestion
    /\ resource_records = <<>>
    /\ answers = None
    /\ remaining = 0
    /\ message = NoMessage
    /\ calls = <<>>
    /\ rr_trace = <<>>
    /\ ptr = NoPtr
    /\ m_pc = "parse_header"
    /\ m_index = 0
    /\ m_names = EmptyMap
    /\ m_header = NoHeader
    /\ m_question = NoQuestion
    /\ m_records = None
    /\ m_remaining = 0
    /\ m_message = NoMessage
    /\ m_calls = <<>>

Next ==
    \/ ParseHeader
    \/ ParseNameStart
    \/ ParseNameLabel
    \/ ParseNamePointer
    \/ ParseNameEnd
    \/ ParseQuestion
    \/ ParseResourceRecords
    \/ ParseRecordFields
    \/ Return
    \/ M_ParseHeader
    \/ M_ParseQuestion
    \/ M_ParseResourceRecords
    \/ M_ParseRecord
    \/ M_Return

Spec == Init /\ [][Next]_vars

---------------------------------------------------------------------------
(* The wire, read independently of the decoders.                           *)

\* The 14-bit offset of the compression pointer whose first byte is at
\* offset at.
WireTarget(at) == (buffer[at + 1] % 64) * 256 + buffer[at + 2]

RECURSIVE WireLabels(_)
\* The raw labels of the uncompressed name that starts at offset at.
WireLabels(at) ==
    IF buffer[at + 1] = 0 THEN <<>>
    ELSE <<SubSeq(buffer, at + 2, at + 1 + buffer[at + 1])>>
         \o WireLabels(at + 1 + buffer[at + 1])

\* A byte string that is valid UTF-8.
RECURSIVE IsUtf8From(_, _)
IsUtf8From(s, i) ==
    \/ i > Len(s)
    \/ /\ utf8_scan(s, i).valid
       /\ IsUtf8From(s, i + utf8_scan(s, i).len)

IsUtf8(s) == IsUtf8From(s, 1)

RECURSIVE Rejoin(_)
\* The labels as length-prefixed byte strings, then a zero byte.
Rejoin(nm) ==
    IF nm = <<>> THEN <<0>>
    ELSE <<Len(Head(nm))>> \o Head(nm) \o Rejoin(Tail(nm))

\* The bytes the cursor consumed for a call of parse_name.
Span(c) == SubSeq(buffer, c.start + 1, c.end)

---------------------------------------------------------------------------
(* The claims.                                                             *)

\* C1: for every record, the cursor after the payload is the position just
\* after the data-length field plus the declared data length.
C1_CursorFollowsDataLength ==
    \A i \in 1..Len(rr_trace) :
        rr_trace[i].after_data =
            rr_trace[i].after_length + resource_records[i].data_length

\* C2: a compression pointer whose offset is not a key of the name cache
\* ends decoding in an explicit failure: no Message is returned and the
\* call does not crash (panic).
C2_DanglingPointerFailsExplicitly ==
    (ptr.seen /\ ~ptr.found) => (pc # "panic" /\ ~message.returned)

\* C3: a read past the end of the buffer fails the whole parse_message
\* call: the cursor passes the end only in the failure, no byte outside
\* the buffer is read by a call that goes on, and no Message is returned
\* after the failure.
C3_OutOfBoundsFails ==
    /\ next_index > Len(buffer) => pc = "panic"
    /\ pc = "panic" => ~message.returned
    /\ message.returned =>
          /\ next_index <= Len(buffer)
          /\ \A i \in 1..Len(calls) : calls[i].end <= Len(buffer)
          /\ \A i \in 1..Len(rr_trace) :
                rr_trace[i].after_data <= Len(buffer)

C3_Witness ==
    /\ pc = "panic"
    /\ next_index > Len(buffer)
    /\ Len(resource_records) >= 1
    /\ header.answer_count > Len(resource_records)

\* C4: a name that is purely a compression pointer to the start offset of
\* an already decoded non-empty name has the labels of that name, in
\* order, and leaves the cursor 2 bytes past the pointer's first byte.
C4_PurePointerCopiesName ==
    \A i \in 1..Len(calls) :
        bits_set(buffer[calls[i].start + 1], 192) =>
            /\ calls[i].end = calls[i].start + 2
            /\ \E j \in 1..(i - 1) :
                  /\ calls[j].start = WireTarget(calls[i].start)
                  /\ calls[j].name # <<>>
                  /\ calls[i].name = calls[j].name

C4_Witness ==
    \E i \in 1..Len(calls) :
        /\ bits_set(buffer[calls[i].start + 1], 192)
        /\ Len(calls[i].name) = 2
        /\ pc = "done"

\* C5: the answers returned are absent exactly when the header's answer
\* count is 0; otherwise they are exactly answer-count records in wire
\* order, never an empty present sequence.
C5_AnswersAbsentIffZero ==
    message.returned =>
        LET count == u16_from_be_bytes(buffer[7], buffer[8])
            recs == message.answers.recs
        IN  /\ ~message.answers.some <=> count = 0
            /\ message.answers.some =>
                  /\ recs # <<>>
                  /\ Len(recs) = count
                  /\ Len(rr_trace) = count
                  /\ \A i \in 1..count :
                        /\ calls[i + 1].start = rr_trace[i].start
                        /\ recs[i].name = calls[i + 1].name
                        /\ recs[i].type =
                              u16_from_be_bytes(
                                  buffer[calls[i + 1].end + 1],
                                  buffer[calls[i + 1].end + 2])
                  /\ \A i, j \in 1..count :
                        i < j => rr_trace[i].start < rr_trace[j].start

C5_Witness ==
    /\ message.returned
    /\ message.answers.some
    /\ Len(message.answers.recs) = 2

\* C6: a record's payload is an address read from the payload bytes only
\* when its type is 1 and its declared data length is 4; otherwise it is
\* the placeholder 0.0.0.0 and no payload byte is read.
C6_AddressOnlyForTypeOneLengthFour ==
    \A i \in 1..Len(rr_trace) :
        LET r == resource_records[i]
            read == rr_trace[i].after_data - rr_trace[i].after_length
        IN  IF r.type = 1 /\ r.data_length = 4
            THEN r.data = SubSeq(buffer, rr_trace[i].after_length + 1,
                                 rr_trace[i].after_length + 4)
            ELSE read = 0 /\ r.data = <<0, 0, 0, 0>>

\* C7, as stated: for every name decoded without compression, whatever the
\* label bytes, the labels re-joined with length prefixes and a zero byte
\* are the bytes the cursor consumed.
C7_RejoinReproducesSpan ==
    \A i \in 1..Len(calls) :
        ~calls[i].compressed => Rejoin(calls[i].name) = Span(calls[i])

\* C7, amended: for every name decoded without compression whose labels
\* are all valid UTF-8, the labels re-joined with length prefixes and a
\* zero byte are the bytes the cursor consumed.
C7_RejoinReproducesUtf8Span ==
    \A i \in 1..Len(calls) :
        (/\ ~calls[i].compressed
         /\ \A k \in 1..Len(WireLabels(calls[i].start)) :
               IsUtf8(WireLabels(calls[i].start)[k]))
        => Rejoin(calls[i].name) = Span(calls[i])

C7_Witness ==
    \E i \in 1..Len(calls) :
        /\ ~calls[i].compressed
        /\ calls[i].name = <<(<<195, 169>>)>>
        /\ calls[i].end = calls[i].start + 4

\* C8: every key of the name cache is the start offset of a parse_name
\* call that has returned, its value is the non-empty name that call
\* returned, the byte at a key is never the root terminator, the offset of
\* the name being decoded is not yet a key, and the cache is empty until a
\* name has been decoded.
C8_NameCacheInvariant ==
    /\ \A k \in DOMAIN names :
          /\ names[k] # <<>>
          /\ buffer[k + 1] # 0
          /\ \E i \in 1..Len(calls) :
                calls[i].start = k /\ calls[i].name = names[k]
    /\ pc \in {"name_loop", "name_end"} => offset \notin DOMAIN names
    /\ calls = <<>> => DOMAIN names = {}

C8_Witness ==
    /\ Cardinality(DOMAIN names) = 3
    /\ \E k \in DOMAIN names : Len(names[k]) = 3

\* C9: a compression pointer resolves exactly when its offset is the start
\* offset of a non-empty name decoded earlier in the message; a pointer to
\* the offset of an interior label of an earlier name does not resolve.
C9_PointerResolvesIffNameStart ==
    ptr.seen =>
        /\ ptr.found <=>
              \E i \in 1..Len(calls) :
                  /\ calls[i].start = WireTarget(ptr.at)
                  /\ calls[i].end <= ptr.at
                  /\ calls[i].name # <<>>
        /\ (\E i \in 1..Len(calls) :
               /\ calls[i].start < WireTarget(ptr.at)
               /\ WireTarget(ptr.at) < calls[i].end)
           => (~ptr.found /\ pc = "panic")

C9_Witness ==
    /\ ptr.seen
    /\ ~ptr.found
    /\ pc = "panic"
    /\ WireTarget(ptr.at) = 14
    /\ calls[1].name = <<(<<97>>), (<<98>>)>>

\* C10: when both decoders return a Message for a buffer, they return the
\* same header fields, the same question and the same owner name for every
\* answer record, with the cursor at the same position after each name.
C10_DecodersAgree ==
    (message.returned /\ m_message.returned) =>
        /\ message.header = m_message.header
        /\ message.question = m_message.question
        /\ message.answers.some = m_message.answers.some
        /\ Len(message.answers.recs) = Len(m_message.answers.recs)
        /\ \A i \in 1..Len(message.answers.recs) :
              message.answers.recs[i].name = m_message.answers.recs[i].name
        /\ Len(calls) = Len(m_calls)
        /\ \A i \in 1..Len(calls) :
              /\ calls[i].start = m_calls[i].start
              /\ calls[i].name = m_calls[i].name
              /\ calls[i].end = m_calls[i].end

=============================================================================
